---- MODULE Spec2Model ----
(***************************************************************************)
(* Model of the cossessor embeddings API: the incremental embedding        *)
(* pipeline (core/embed.py), the command processors (core/procs.py), the   *)
(* HTTP handlers (app.py), the fingerprint actor (core/actors.py), the     *)
(* tree walker (utls/io.py) and the CLI search command (chroma_cli/cli.py).*)
(*                                                                         *)
(* Strings are tuples of one-character strings, so that the path           *)
(* translations are computed character by character as the code does.      *)
(***************************************************************************)
EXTENDS Naturals, Sequences, FiniteSets, TLC

\* ------------------------------------------------------------------ bounds

\* Number of file modifications the environment makes in one behaviour.
MaxEdits == 1

\* CHUNK_SIZE / CHUNK_OVERLAP as configured through the environment
\* (embed.py:59-60), counted in tokens of the modelled file contents.
ChunkSize == 2

ChunkOverlap == 1

\* ------------------------------------------------------- program constants

\* embed.py:29  [:36]
CollectionNameLen == 36

\* procs.py:30  vector_store.as_retriever() with no search_kwargs: langchain's
\* retriever asks the store for its default number of neighbours, 4.
RetrieverK == 4

\* cli.py:83  --limit default
DefaultLimit == 5

\* ------------------------------------------------------------- characters

Min(a, b) == IF a < b THEN a ELSE b

\* str.lower() on the characters the model uses.
LowerChar(c) ==
    CASE c = "A" -> "a"
      [] c = "W" -> "w"
      [] OTHER -> c

Lower(s) == [i \in 1..Len(s) |-> LowerChar(s[i])]

\* str.replace(c, "") for every c in cs.
Strip(s, cs) == SelectSeq(s, LAMBDA ch : ch \notin cs)

RECURSIVE ReplaceAll(_, _, _)
\* str.replace(c, r): every occurrence of character c becomes the string r.
ReplaceAll(s, c, r) ==
    IF s = <<>> THEN <<>>
    ELSE (IF Head(s) = c THEN r ELSE <<Head(s)>>) \o ReplaceAll(Tail(s), c, r)

\* s[:n]
Take(s, n) == SubSeq(s, 1, Min(n, Len(s)))

\* str.endswith
EndsWith(s, suf) ==
    /\ Len(suf) <= Len(s)
    /\ SubSeq(s, Len(s) - Len(suf) + 1, Len(s)) = suf

\* f"{a}/{b}"
JoinPath(a, b) == a \o <<"/">> \o b

\* str(i) for the chunk indexes the model reaches.
DigitStr(i) ==
    CASE i = 0 -> <<"0">>
      [] i = 1 -> <<"1">>
      [] i = 2 -> <<"2">>
      [] i = 3 -> <<"3">>
      [] OTHER -> <<"9">>

\* ------------------------------------------------------------ path namer

translate_file_path_to_actor_id(file_path) ==
    Lower(Strip(file_path, {".", "/"}))

translate_file_path_to_collection_name(file_path) ==
    Lower(Take(Strip(file_path, {".", "/", "-"}), CollectionNameLen))

translate_file_path_to_key(file_path) ==
    Lower(ReplaceAll(file_path, ".", <<"_", "_">>))

\* The string literal "file_path" that lines 85 and 102 of embed.py look up.
LiteralFilePath == <<"f", "i", "l", "e", "_", "p", "a", "t", "h">>

\* ------------------------------------------------------------ file system

DirW == <<"/", "w">>

DirWB == <<"/", "w", "/", "b">>

DirWS == <<"/", "w", "/", "s">>

DirWSB == <<"/", "w", "/", "s", "/", "b">>

\* A path at which there is no directory.
DirMissing == <<"/", "n">>

\* The directory tree: every directory with its listing, in the order the
\* operating system lists it.
Tree ==
    (DirW :> [dirs |-> << <<"b">>, <<"s">> >>,
              files |-> << <<"a", ".", "t">>, <<"A", ".", "t">>, <<"x", ".", "l">> >>])
    @@ (DirWB :> [dirs |-> <<>>, files |-> << <<"c", ".", "t">> >>])
    @@ (DirWS :> [dirs |-> << <<"b">> >>, files |-> << <<"m">> >>])
    @@ (DirWSB :> [dirs |-> <<>>, files |-> << <<"d", ".", "t">> >>])

Files ==
    UNION { { JoinPath(d, Tree[d].files[i]) : i \in 1..Len(Tree[d].files) } : d \in DOMAIN Tree }

\* Paths a caller may send as file_system_path.
RootPaths == {DirW, DirMissing}

\* File contents, as token sequences.  A content holding the token "BIN"
\* is not decodable text.
Contents == { <<>>, <<"x">>, <<"x", "y", "z">>, <<"BIN">> }

InitialContent(f) ==
    CASE f = JoinPath(DirW, <<"a", ".", "t">>) -> <<"x", "y", "z">>
      [] f = JoinPath(DirWS, <<"m">>) -> <<>>
      [] OTHER -> <<"x">>

\* Paths the tree walker is exercised on: every directory, and the missing one.
WalkRoots == DOMAIN Tree \cup {DirMissing}

\* Folder names and suffixes IGNORE_FOLDERS and IGNORE_FILE_EXTS may hold.
\* "".split(",") gives the empty suffix.
FolderNames == { <<"b">>, <<"s">> }

ExtNames == { <<".", "l">>, <<".", "t">>, <<>> }

Runs == {"r1", "r2"}

Limits == {1, DefaultLimit}

None == <<"none">>

\* No query is being answered.
NoResponse == [status |-> 0]

VARIABLES
    ignore_folders,     \* IGNORE_FOLDERS of the environment, split
    ignore_file_exts,   \* IGNORE_FILE_EXTS of the environment, split
    fs,                 \* content of every file
    edits,              \* modifications made so far
    persisted,          \* actor id -> state saved by EmbeddingActor.set_state
    collections,        \* collection name -> (chunk id -> document)
    pc,                 \* position of each embed request
    path,               \* file_system_path of each embed request
    file_paths,         \* candidate list of each run
    idx,                \* index of the file the loop is at
    actor_state,        \* in-memory mapping of each run
    docs,               \* content loaded for the current file
    split_texts,        \* chunks of the current file
    embed_log,          \* files embed_documents was called for, per run
    upsert_log,         \* files add_documents completed for, per run
    written,            \* files whose hash entry the run has set in memory
    saved,              \* files whose set_state has completed, per run
    attempted,          \* files the loop has loaded (or tried to), per run
    chunked,            \* files split_documents was called for, per run
    error,              \* the call that raised and ended the request, per run
    rerun,              \* the run started after a completed run on its root
    stale,              \* files modified since that completed run
    synced,             \* root -> a run on it has completed
    dirty,              \* root -> files modified since that run
    qry_resp            \* response of the query being answered, or NoResponse

vars ==
    << ignore_folders, ignore_file_exts, fs, edits, persisted, collections,
       pc, path, file_paths, idx, actor_state, docs, split_texts,
       embed_log, upsert_log, written, saved, attempted, chunked,
       error, rerun, stale, synced, dirty, qry_resp >>

\* ------------------------------------------------------------ tree walker

\* A walk that descends into every directory.
PruneDirsNone(dirs, ignore_folders_) == dirs

\* io.py:25  dirs[:] = [d for d in dirs if d not in ignore_folders]
PruneDirs(dirs, ignore_folders_) ==
    SelectSeq(dirs, LAMBDA d : d \notin ignore_folders_)

\* io.py:27-32  the suffix filter, applied only to a non-empty list.
FilterFiles(files, ignore_extensions) ==
    IF ignore_extensions # {}
    THEN SelectSeq(files, LAMBDA f : ~(\E ext \in ignore_extensions : EndsWith(f, ext)))
    ELSE files

RECURSIVE Walk(_, _, _)
RECURSIVE WalkDirs(_, _, _, _)
\* os.walk(top), top-down: the entry of top, then the walk of every directory
\* left in dirs.  A top that is no directory yields nothing.
Walk(top, ignore_folders_, ignore_extensions) ==
    IF top \notin DOMAIN Tree THEN <<>>
    ELSE << [root |-> top,
             files |-> FilterFiles(Tree[top].files, ignore_extensions)] >>
         \o WalkDirs(top, PruneDirs(Tree[top].dirs, ignore_folders_),
                     ignore_folders_, ignore_extensions)

WalkDirs(top, dirs, ignore_folders_, ignore_extensions) ==
    IF dirs = <<>> THEN <<>>
    ELSE Walk(JoinPath(top, Head(dirs)), ignore_folders_, ignore_extensions)
         \o WalkDirs(top, Tail(dirs), ignore_folders_, ignore_extensions)

\* The dict of directory -> retained file names, in insertion order.
traverse_folder(folder_path, ignore_folders_, ignore_extensions) ==
    Walk(folder_path, ignore_folders_, ignore_extensions)

RECURSIVE FlattenFileDict(_)
\* embed.py:46  [f"{k}/{f}" for k, v in file_dict.items() for f in v]
FlattenFileDict(file_dict) ==
    IF file_dict = <<>> THEN <<>>
    ELSE LET e == Head(file_dict)
         IN  [i \in 1..Len(e.files) |-> JoinPath(e.root, e.files[i])]
             \o FlattenFileDict(Tail(file_dict))

\* ------------------------------------------------- loader, splitter, hash

\* TextLoader.load() raises on content it cannot decode.
Readable(content) == \A i \in 1..Len(content) : content[i] # "BIN"

RECURSIVE Windows(_, _)
\* Windows of at most ChunkSize tokens, adjacent ones sharing ChunkOverlap.
Windows(content, start) ==
    IF start + ChunkSize - 1 >= Len(content)
    THEN << SubSeq(content, start, Len(content)) >>
    ELSE << SubSeq(content, start, start + ChunkSize - 1) >>
         \o Windows(content, start + (ChunkSize - ChunkOverlap))

\* text_splitter.split_documents(docs): no chunk for an empty text.
split_documents(content) ==
    IF Len(content) = 0 THEN <<>> ELSE Windows(content, 1)

\* A digest of the content, taken to be collision free.
generate_sha256(content) == <<"sha256", content>>

\* embed.py:96  ids = [f"{file_path}_{i}" for i in range(len(embeddings))]
ChunkId(file_path, i) == file_path \o <<"_">> \o DigitStr(i)

ChunkIds(file_path, n) == { ChunkId(file_path, i) : i \in 0..(n - 1) }

\* ------------------------------------------------------ fingerprint actor

EmptyMap == <<>>

\* actors.py:43-48
ActorGetState(actor_id) ==
    IF actor_id \in DOMAIN persisted THEN persisted[actor_id] ELSE EmptyMap

\* A set_state that never reaches the state store.
ActorSetStateNoSave(actor_id, data) == persisted

\* A set_state that merges the document into what was saved.
ActorSetStateMerge(actor_id, data) ==
    (actor_id :> (data @@ ActorGetState(actor_id))) @@ persisted

\* actors.py:38-41  the whole document replaces what was saved.
ActorSetState(actor_id, data) ==
    (actor_id :> data) @@ persisted

\* embed.py:84-85  the test that guards the "already embedded" skip.
AlreadyEmbedded(state, file_path) ==
    /\ file_path \in DOMAIN state
    /\ LiteralFilePath \in DOMAIN state
    /\ "hash" \in DOMAIN state[LiteralFilePath]

\* embed.py:102-105
RecordHash(state, key, hash) ==
    IF LiteralFilePath \in DOMAIN state /\ key \in DOMAIN state
    THEN [state EXCEPT ![key] = [hash |-> hash]]
    ELSE (key :> [hash |-> hash]) @@ state

\* A loop without the zero-chunk test.
NoChunksNever(texts) == FALSE

\* embed.py:92  if not len(split_texts): continue
NoChunks(texts) == Len(texts) = 0

\* ----------------------------------------------------------- vector store

\* Chroma(client=..., collection_name=...) gets the collection or creates it.
GetOrCreateCollection(name) ==
    IF name \in DOMAIN collections THEN collections ELSE (name :> EmptyMap) @@ collections

\* An add_documents that is handed no ids: every call stores its documents
\* under ids the collection does not hold yet for the file.
AddDocumentsAppend(colls, name, file_path, texts) ==
    LET k == Cardinality({ id \in DOMAIN colls[name] : colls[name][id].source = file_path })
        new == [id \in { ChunkId(file_path, k + j) : j \in 0..(Len(texts) - 1) } |->
                  LET i == CHOOSE j \in 0..(Len(texts) - 1) : ChunkId(file_path, k + j) = id
                  IN  [source |-> file_path, page_content |-> texts[i + 1]]]
    IN  [colls EXCEPT ![name] = new @@ colls[name]]

\* embed.py:98  add_documents: an upsert by id.
AddDocuments(colls, name, file_path, texts) ==
    LET new == [id \in ChunkIds(file_path, Len(texts)) |->
                  LET i == CHOOSE j \in 0..(Len(texts) - 1) : ChunkId(file_path, j) = id
                  IN  [source |-> file_path, page_content |-> texts[i + 1]]]
    IN  [colls EXCEPT ![name] = new @@ colls[name]]

RECURSIVE Ranked(_)
\* The ids of a collection in a fixed order of decreasing similarity.
Ranked(ids) ==
    IF ids = {} THEN <<>>
    ELSE LET x == CHOOSE y \in ids : TRUE IN <<x>> \o Ranked(ids \ {x})

\* ------------------------------------------------------------------ state

CurrentFile(r) == file_paths[r][idx[r]]

Idle(r) == pc[r] = "idle"

NoQueryPending == qry_resp = NoResponse

\* Default configuration: DEFAULT_IGNORE_FOLDERS and DEFAULT_IGNORE_FILE_EXTS
\* (embed.py:14-15), as the names the modelled tree holds.
DefaultIgnoreFolders == { <<"b">> }

DefaultIgnoreFileExts == { <<".", "l">> }

RunInit ==
    /\ pc = [r \in Runs |-> "idle"]
    /\ path = [r \in Runs |-> None]
    /\ file_paths = [r \in Runs |-> <<>>]
    /\ idx = [r \in Runs |-> 1]
    /\ actor_state = [r \in Runs |-> EmptyMap]
    /\ docs = [r \in Runs |-> <<>>]
    /\ split_texts = [r \in Runs |-> <<>>]
    /\ embed_log = [r \in Runs |-> {}]
    /\ upsert_log = [r \in Runs |-> {}]
    /\ written = [r \in Runs |-> {}]
    /\ saved = [r \in Runs |-> {}]
    /\ attempted = [r \in Runs |-> {}]
    /\ chunked = [r \in Runs |-> {}]
    /\ error = [r \in Runs |-> "none"]
    /\ rerun = [r \in Runs |-> FALSE]
    /\ stale = [r \in Runs |-> {}]

StoreInit ==
    /\ fs = [f \in Files |-> InitialContent(f)]
    /\ edits = 0
    /\ persisted = EmptyMap
    /\ collections = EmptyMap
    /\ synced = [p \in WalkRoots |-> FALSE]
    /\ dirty = [p \in WalkRoots |-> {}]
    /\ qry_resp = NoResponse

Init ==
    /\ ignore_folders = DefaultIgnoreFolders
    /\ ignore_file_exts = DefaultIgnoreFileExts
    /\ StoreInit
    /\ RunInit

\* ---------------------------------------------------------------- actions

\* POST /embed: handle_embed_cmd -> process_embed_cmd (which only logs a path
\* that is no directory) -> embed_file_system up to the awaited get_state.
StartRun(r, p) ==
    /\ Idle(r)
    /\ NoQueryPending
    /\ pc' = [pc EXCEPT ![r] = "get_state"]
    /\ path' = [path EXCEPT ![r] = p]
    /\ file_paths' = [file_paths EXCEPT ![r] =
           FlattenFileDict(traverse_folder(p, ignore_folders, ignore_file_exts))]
    /\ idx' = [idx EXCEPT ![r] = 1]
    /\ rerun' = [rerun EXCEPT ![r] = synced[p]]
    /\ stale' = [stale EXCEPT ![r] = dirty[p]]
    /\ UNCHANGED << ignore_folders, ignore_file_exts, fs, edits, persisted,
                    collections, actor_state, docs, split_texts, embed_log,
                    upsert_log, written, saved, attempted, synced, dirty, qry_resp, chunked, error >>

\* embed.py:52-74: the actor's state is fetched, then the Chroma handle of the
\* root's collection is built, which creates the collection when it is missing.
GetState(r) ==
    /\ pc[r] = "get_state"
    /\ NoQueryPending
    /\ actor_state' = [actor_state EXCEPT ![r] =
           ActorGetState(translate_file_path_to_actor_id(path[r]))]
    /\ collections' = GetOrCreateCollection(translate_file_path_to_collection_name(path[r]))
    /\ pc' = [pc EXCEPT ![r] = "loop"]
    /\ UNCHANGED << ignore_folders, ignore_file_exts, fs, edits, persisted, path,
                    file_paths, idx, docs, split_texts, embed_log, upsert_log,
                    written, saved, attempted, rerun, stale, synced, dirty, qry_resp, chunked, error >>

\* embed.py:76-93: the next file is loaded and hashed; a file that cannot be
\* decoded raises; the skip test and the zero-chunk test both go on to the
\* next file; otherwise the chunks await embedding.
LoadFile(r) ==
    /\ pc[r] = "loop"
    /\ NoQueryPending
    /\ idx[r] <= Len(file_paths[r])
    /\ attempted' = [attempted EXCEPT ![r] = @ \cup {CurrentFile(r)}]
    /\ IF ~Readable(fs[CurrentFile(r)])
       THEN /\ pc' = [pc EXCEPT ![r] = "failed"]
            /\ error' = [error EXCEPT ![r] = "load"]
            /\ UNCHANGED << idx, docs, split_texts, chunked >>
       ELSE IF AlreadyEmbedded(actor_state[r], CurrentFile(r))
       THEN /\ idx' = [idx EXCEPT ![r] = @ + 1]
            /\ UNCHANGED << pc, docs, split_texts, chunked, error >>
       ELSE /\ docs' = [docs EXCEPT ![r] = fs[CurrentFile(r)]]
            /\ split_texts' = [split_texts EXCEPT ![r] = split_documents(fs[CurrentFile(r)])]
            /\ chunked' = [chunked EXCEPT ![r] = @ \cup {CurrentFile(r)}]
            /\ IF NoChunks(split_documents(fs[CurrentFile(r)]))
               THEN /\ idx' = [idx EXCEPT ![r] = @ + 1]
                    /\ UNCHANGED pc
               ELSE /\ pc' = [pc EXCEPT ![r] = "embed"]
                    /\ UNCHANGED idx
            /\ UNCHANGED error
    /\ UNCHANGED << ignore_folders, ignore_file_exts, fs, edits, persisted,
                    collections, path, file_paths, actor_state, embed_log,
                    upsert_log, written, saved, rerun, stale, synced, dirty, qry_resp >>

\* embed.py:95-96: embedding_function.embed_documents(split_texts)
Embed(r) ==
    /\ pc[r] = "embed"
    /\ NoQueryPending
    /\ embed_log' = [embed_log EXCEPT ![r] = @ \cup {CurrentFile(r)}]
    /\ pc' = [pc EXCEPT ![r] = "upsert"]
    /\ UNCHANGED << ignore_folders, ignore_file_exts, fs, edits, persisted,
                    collections, path, file_paths, idx, actor_state, docs,
                    split_texts, upsert_log, written, saved, attempted, rerun,
                    stale, synced, dirty, qry_resp, chunked, error >>

\* embed.py:98: vector_store.add_documents(..., ids=ids)
Upsert(r) ==
    /\ pc[r] = "upsert"
    /\ NoQueryPending
    /\ collections' = AddDocuments(collections,
           translate_file_path_to_collection_name(path[r]), CurrentFile(r), split_texts[r])
    /\ upsert_log' = [upsert_log EXCEPT ![r] = @ \cup {CurrentFile(r)}]
    /\ pc' = [pc EXCEPT ![r] = "record"]
    /\ UNCHANGED << ignore_folders, ignore_file_exts, fs, edits, persisted, path,
                    file_paths, idx, actor_state, docs, split_texts, embed_log,
                    written, saved, attempted, rerun, stale, synced, dirty, qry_resp, chunked, error >>

\* A loop body that sets the hash entry before the chunks are embedded.
ReadyToRecordEarly(r) == pc[r] \in {"embed", "record"}

\* The position at which the loop body sets the hash entry: after the upsert.
ReadyToRecord(r) == pc[r] = "record"

\* embed.py:100-105: the hash entry is set in the in-memory mapping.
Record(r) ==
    /\ ReadyToRecord(r)
    /\ NoQueryPending
    /\ actor_state' = [actor_state EXCEPT ![r] =
           RecordHash(@, translate_file_path_to_key(CurrentFile(r)),
                      generate_sha256(docs[r]))]
    /\ written' = [written EXCEPT ![r] = @ \cup {CurrentFile(r)}]
    /\ pc' = [pc EXCEPT ![r] = "set_state"]
    /\ UNCHANGED << ignore_folders, ignore_file_exts, fs, edits, persisted,
                    collections, path, file_paths, idx, docs, split_texts,
                    embed_log, upsert_log, saved, attempted, rerun, stale,
                    synced, dirty, qry_resp, chunked, error >>

\* embed.py:106: await actor.set_state(actor_state), then the next file.
SetState(r) ==
    /\ pc[r] = "set_state"
    /\ NoQueryPending
    /\ persisted' = ActorSetState(translate_file_path_to_actor_id(path[r]), actor_state[r])
    /\ saved' = [saved EXCEPT ![r] = @ \cup {CurrentFile(r)}]
    /\ idx' = [idx EXCEPT ![r] = @ + 1]
    /\ pc' = [pc EXCEPT ![r] = "loop"]
    /\ UNCHANGED << ignore_folders, ignore_file_exts, fs, edits, collections,
                    path, file_paths, actor_state, docs, split_texts, embed_log,
                    upsert_log, written, attempted, rerun, stale, synced, dirty,
                    qry_resp, chunked, error >>

\* A call to an external service (the actor runtime, the embedding provider,
\* the vector store) raises.  Nothing in embed_file_system, process_embed_cmd
\* or handle_embed_cmd catches, so the exception ends the request.
Raise(r) ==
    /\ pc[r] \in {"get_state", "embed", "upsert", "set_state"}
    /\ NoQueryPending
    /\ pc' = [pc EXCEPT ![r] = "failed"]
    /\ error' = [error EXCEPT ![r] = pc[r]]
    /\ UNCHANGED << ignore_folders, ignore_file_exts, fs, edits, persisted,
                    collections, path, file_paths, idx, actor_state, docs,
                    split_texts, embed_log, upsert_log, written, saved,
                    attempted, chunked, rerun, stale, synced, dirty, qry_resp >>

\* embed.py:76,110: the candidate list is exhausted; embed_file_system returns.
Finish(r) ==
    /\ pc[r] = "loop"
    /\ NoQueryPending
    /\ idx[r] > Len(file_paths[r])
    /\ pc' = [pc EXCEPT ![r] = "done"]
    /\ UNCHANGED << ignore_folders, ignore_file_exts, fs, edits, persisted,
                    collections, path, file_paths, idx, actor_state, docs,
                    split_texts, embed_log, upsert_log, written, saved,
                    attempted, rerun, stale, synced, dirty, qry_resp, chunked, error >>

\* app.py:53-57: the handler returns (200 after "done", 500 after "failed")
\* and the request's locals are gone.
Return(r) ==
    /\ pc[r] \in {"done", "failed"}
    /\ NoQueryPending
    /\ synced' = [synced EXCEPT ![path[r]] = (pc[r] = "done")]
    /\ dirty' = [dirty EXCEPT ![path[r]] = IF pc[r] = "done" THEN {} ELSE @]
    /\ pc' = [pc EXCEPT ![r] = "idle"]
    /\ path' = [path EXCEPT ![r] = None]
    /\ file_paths' = [file_paths EXCEPT ![r] = <<>>]
    /\ idx' = [idx EXCEPT ![r] = 1]
    /\ actor_state' = [actor_state EXCEPT ![r] = EmptyMap]
    /\ docs' = [docs EXCEPT ![r] = <<>>]
    /\ split_texts' = [split_texts EXCEPT ![r] = <<>>]
    /\ embed_log' = [embed_log EXCEPT ![r] = {}]
    /\ upsert_log' = [upsert_log EXCEPT ![r] = {}]
    /\ written' = [written EXCEPT ![r] = {}]
    /\ saved' = [saved EXCEPT ![r] = {}]
    /\ attempted' = [attempted EXCEPT ![r] = {}]
    /\ chunked' = [chunked EXCEPT ![r] = {}]
    /\ error' = [error EXCEPT ![r] = "none"]
    /\ rerun' = [rerun EXCEPT ![r] = FALSE]
    /\ stale' = [stale EXCEPT ![r] = {}]
    /\ UNCHANGED << ignore_folders, ignore_file_exts, fs, edits, persisted,
                    collections, qry_resp >>

\* The files some request can be handed by the walk under the configuration
\* in force; no request ever opens any other file.
Readers(f) ==
    { p \in RootPaths :
        \E i \in 1..Len(FlattenFileDict(traverse_folder(p, ignore_folders, ignore_file_exts))) :
            FlattenFileDict(traverse_folder(p, ignore_folders, ignore_file_exts))[i] = f }

\* The environment rewrites a file between two embed requests.
ModifyFile(f, c) ==
    /\ \A r \in Runs : Idle(r)
    /\ Readers(f) # {}
    /\ NoQueryPending
    /\ edits < MaxEdits
    /\ fs[f] # c
    /\ fs' = [fs EXCEPT ![f] = c]
    /\ edits' = edits + 1
    /\ dirty' = [p \in WalkRoots |-> dirty[p] \cup {f}]
    /\ UNCHANGED << ignore_folders, ignore_file_exts, persisted, collections, pc,
                    path, file_paths, idx, actor_state, docs, split_texts,
                    embed_log, upsert_log, written, saved, attempted, rerun,
                    stale, synced, qry_resp, chunked, error >>

\* A request is suspended only where embed_file_system awaits (get_state,
\* set_state), or it has not begun or has ended; everything between two
\* awaits runs on the event loop without interruption.
Suspended(r) == pc[r] \in {"idle", "get_state", "set_state", "done", "failed"}

\* procs.py:24-31 and 40-42: the retriever's answer, at most RetrieverK
\* documents of the collection, each with its source and its text.
RetrieverInvoke(colls, name) ==
    LET ranked == Ranked(DOMAIN colls[name])
    IN  [i \in 1..Min(RetrieverK, Len(ranked)) |->
            [source |-> colls[name][ranked[i]].source,
             page_content |-> colls[name][ranked[i]].page_content]]

\* A query path that names the collection by the fingerprint key translation.
QryCollectionNameAsKey(file_system_path) ==
    translate_file_path_to_key(file_system_path)

\* procs.py:39  collection_name = translate_file_path_to_collection_name(...)
QryCollectionName(file_system_path) ==
    translate_file_path_to_collection_name(file_system_path)

\* cli.py:80-98 -> app.py:60-69 -> procs.py:34-48.  The CLI's request body
\* holds qry and file_system_path; limit stays in the CLI.
Search(p, limit) ==
    /\ NoQueryPending
    /\ \A r \in Runs : Suspended(r)
    /\ collections' = GetOrCreateCollection(QryCollectionName(p))
    /\ qry_resp' = [file_system_path |-> p,
                    limit |-> limit,
                    collection_name |-> QryCollectionName(p),
                    existed |-> QryCollectionName(p) \in DOMAIN collections,
                    status |-> 200,
                    documents |-> RetrieverInvoke(collections', QryCollectionName(p))]
    /\ UNCHANGED << ignore_folders, ignore_file_exts, fs, edits, persisted, pc,
                    path, file_paths, idx, actor_state, docs, split_texts,
                    embed_log, upsert_log, written, saved, attempted, rerun,
                    stale, synced, dirty, chunked, error >>

\* cli.py:100-117: the CLI prints the response it received.
ShowResults ==
    /\ qry_resp # NoResponse
    /\ qry_resp' = NoResponse
    /\ UNCHANGED << ignore_folders, ignore_file_exts, fs, edits, persisted,
                    collections, pc, path, file_paths, idx, actor_state, docs,
                    split_texts, embed_log, upsert_log, written, saved,
                    attempted, rerun, stale, synced, dirty, chunked, error >>

\* Embed requests are served one at a time.
Sequential == \A r \in Runs : Idle(r)

Next ==
    \/ \E r \in Runs, p \in RootPaths : Sequential /\ StartRun(r, p)
    \/ \E r \in Runs : GetState(r)
    \/ \E r \in Runs : LoadFile(r)
    \/ \E r \in Runs : Embed(r)
    \/ \E r \in Runs : Upsert(r)
    \/ \E r \in Runs : Record(r)
    \/ \E r \in Runs : SetState(r)
    \/ \E r \in Runs : Raise(r)
    \/ \E r \in Runs : Finish(r)
    \/ \E r \in Runs : Return(r)
    \/ \E f \in Files, c \in Contents : ModifyFile(f, c)
    \/ \E p \in RootPaths, limit \in Limits : Search(p, limit)
    \/ ShowResults

Spec == Init /\ [][Next]_vars

\* The tree walker under every configuration and on every root: the requests
\* get as far as the walk and the awaited get_state, which raises.
InitWalk ==
    /\ ignore_folders \in SUBSET FolderNames
    /\ ignore_file_exts \in SUBSET ExtNames
    /\ StoreInit
    /\ RunInit

NextWalk ==
    \/ \E r \in Runs, p \in WalkRoots : StartRun(r, p)
    \/ \E r \in Runs : Raise(r)
    \/ \E r \in Runs : Return(r)

SpecWalk == InitWalk /\ [][NextWalk]_vars

\* Embed requests served concurrently on one event loop (app.py:53-57 is an
\* async handler; nothing serialises two requests).  A request takes a step
\* only while every other request is suspended at an await.
Alone(r) == \A q \in Runs \ {r} : Suspended(q)

\* The tree with text in every file, so that a run on /w sets the entries
\* of two keys; the stores are empty and the configuration is the default.
InitConc ==
    /\ ignore_folders = DefaultIgnoreFolders
    /\ ignore_file_exts = DefaultIgnoreFileExts
    /\ fs = [f \in Files |-> IF InitialContent(f) = <<>> THEN <<"x">> ELSE InitialContent(f)]
    /\ edits = 0
    /\ persisted = EmptyMap
    /\ collections = EmptyMap
    /\ synced = [p \in WalkRoots |-> FALSE]
    /\ dirty = [p \in WalkRoots |-> {}]
    /\ qry_resp = NoResponse
    /\ RunInit

NextConc ==
    \/ \E r \in Runs, p \in RootPaths : Alone(r) /\ StartRun(r, p)
    \/ \E r \in Runs : Alone(r) /\ GetState(r)
    \/ \E r \in Runs : Alone(r) /\ LoadFile(r)
    \/ \E r \in Runs : Alone(r) /\ Embed(r)
    \/ \E r \in Runs : Alone(r) /\ Upsert(r)
    \/ \E r \in Runs : Alone(r) /\ Record(r)
    \/ \E r \in Runs : Alone(r) /\ SetState(r)
    \/ \E r \in Runs : Alone(r) /\ Raise(r)
    \/ \E r \in Runs : Alone(r) /\ Finish(r)
    \/ \E r \in Runs : Alone(r) /\ Return(r)

SpecConc == InitConc /\ [][NextConc]_vars

\* ----------------------------------------------------------------- claims

\* The actor id and the collection name of a run's root.
ActorOf(r) == translate_file_path_to_actor_id(path[r])

CollectionOf(r) == translate_file_path_to_collection_name(path[r])

Candidates(r) == { file_paths[r][i] : i \in 1..Len(file_paths[r]) }

\* C1: a run started after a completed run on the same root, with no file
\* modified since and the saved mapping as that run left it, calls neither
\* embed_documents nor add_documents.
Idempotence ==
    \A r \in Runs :
        (rerun[r] /\ stale[r] = {}) =>
            (embed_log[r] = {} /\ upsert_log[r] = {})

\* C2: a run started after a completed run on the same root, with exactly one
\* file modified since, chunks, embeds and upserts that file only, and sets
\* the hash entry of no other file.
ChangeDetection ==
    \A r \in Runs :
        (rerun[r] /\ Cardinality(stale[r]) = 1) =>
            /\ chunked[r] \subseteq stale[r]
            /\ embed_log[r] \subseteq stale[r]
            /\ upsert_log[r] \subseteq stale[r]
            /\ written[r] \subseteq stale[r]

\* The documents add_documents stores for a file with the given content.
StoredFor(r, f, content) ==
    /\ CollectionOf(r) \in DOMAIN collections
    /\ \A i \in 1..Len(split_documents(content)) :
          /\ ChunkId(f, i - 1) \in DOMAIN collections[CollectionOf(r)]
          /\ collections[CollectionOf(r)][ChunkId(f, i - 1)] =
                [source |-> f, page_content |-> split_documents(content)[i]]

\* C3: in every state of a run, every file whose hash entry the run has set
\* (in memory, and so also every one it has saved) has had its embed_documents
\* call and its add_documents call complete, and its chunks are in the root's
\* collection.
HashAfterUpsert ==
    \A r \in Runs :
        /\ saved[r] \subseteq written[r]
        /\ \A f \in written[r] :
              /\ f \in embed_log[r]
              /\ f \in upsert_log[r]
              /\ StoredFor(r, f, fs[f])

\* C3 witness: a run has set a hash entry and not saved it yet.
HashAfterUpsertWitness ==
    \E r \in Runs :
        /\ pc[r] = "set_state"
        /\ CurrentFile(r) \in written[r]
        /\ CurrentFile(r) \in upsert_log[r]

\* The calls whose failure the claim names: reading, chunking, embedding,
\* upserting one file.
PerFileErrors == {"load", "embed", "upsert"}

\* C4: a request that ended on a failure of reading, chunking, embedding or
\* upserting one file has nevertheless gone through every candidate.
FailureIsolation ==
    \A r \in Runs :
        (pc[r] \in {"done", "failed"} /\ error[r] \in PerFileErrors) =>
            Candidates(r) \subseteq attempted[r]

QueryOfMissingCollectionFails ==
    (qry_resp # NoResponse /\ ~qry_resp.existed) => qry_resp.status # 200

\* C7: an embed request on a path that is no directory does not complete
\* normally, processes no file and saves no fingerprint state.
MissingRootAborts ==
    \A r \in Runs :
        (path[r] # None /\ path[r] \notin DOMAIN Tree) =>
            /\ pc[r] # "done"
            /\ attempted[r] = {}
            /\ saved[r] = {}

\* A candidate of the run that is readable and yields no chunk.
EmptyCandidate(r, i) ==
    /\ i \in 1..Len(file_paths[r])
    /\ Readable(fs[file_paths[r][i]])
    /\ Len(split_documents(fs[file_paths[r][i]])) = 0

\* C8: a file that yields zero chunks gets no embed_documents call, no
\* add_documents call, no hash entry and no set_state; the loop has moved on
\* as soon as it has loaded the file, so the request never ends on it; and
\* every completed run has chunked it again.
EmptyFileSkipped ==
    \A r \in Runs : \A i \in 1..Len(file_paths[r]) :
        EmptyCandidate(r, i) =>
            /\ file_paths[r][i] \notin embed_log[r]
            /\ file_paths[r][i] \notin upsert_log[r]
            /\ file_paths[r][i] \notin written[r]
            /\ file_paths[r][i] \notin saved[r]
            /\ (file_paths[r][i] \in attempted[r] => idx[r] > i)
            /\ (pc[r] = "done" => file_paths[r][i] \in chunked[r])

\* C8 witness: a run that started after a completed run on its root has
\* completed too, gone past an empty file and saved a later file.
EmptyFileSkippedWitness ==
    \E r \in Runs : \E i \in 1..Len(file_paths[r]) :
        /\ EmptyCandidate(r, i)
        /\ rerun[r]
        /\ pc[r] = "done"
        /\ \E j \in (i + 1)..Len(file_paths[r]) : file_paths[r][j] \in saved[r]

\* C9: a search issued with result limit N is answered with at most N
\* documents.
ResultLimit ==
    qry_resp # NoResponse => Len(qry_resp.documents) <= qry_resp.limit

RECURSIVE SplitPath(_)
\* The components of a path, split at "/".
SplitPath(s) ==
    IF \A k \in 1..Len(s) : s[k] # "/" THEN <<s>>
    ELSE LET k == CHOOSE k \in 1..Len(s) : s[k] = "/" /\ \A j \in 1..(k - 1) : s[j] # "/"
         IN  <<SubSeq(s, 1, k - 1)>> \o SplitPath(SubSeq(s, k + 1, Len(s)))

\* The folder names on the way to a path, and the path's last component.
FoldersOf(s) == LET c == SplitPath(s) IN { c[j] : j \in 1..(Len(c) - 1) }

NameOf(s) == LET c == SplitPath(s) IN c[Len(c)]

\* The part of a path below the root it was found under.
BelowRoot(root, s) == SubSeq(s, Len(root) + 2, Len(s))

\* C10 as stated: the output holds no file under a directory of an excluded
\* name, and no file whose name ends with an excluded suffix.
ExclusionAnywhere ==
    \A r \in Runs : \A i \in 1..Len(file_paths[r]) :
        /\ FoldersOf(file_paths[r][i]) \cap ignore_folders = {}
        /\ \A ext \in ignore_file_exts : ~EndsWith(NameOf(file_paths[r][i]), ext)

\* C10 as amended: the output holds no file under a directory of an excluded
\* name below the root (no such directory is visited), and no file whose name
\* ends with an excluded suffix.
ExclusionBelowRoot ==
    \A r \in Runs :
        /\ \A i \in 1..Len(file_paths[r]) :
              /\ SubSeq(file_paths[r][i], 1, Len(path[r]) + 1) = path[r] \o <<"/">>
              /\ FoldersOf(BelowRoot(path[r], file_paths[r][i])) \cap ignore_folders = {}
              /\ \A ext \in ignore_file_exts : ~EndsWith(NameOf(file_paths[r][i]), ext)
        /\ path[r] # None =>
              LET file_dict == traverse_folder(path[r], ignore_folders, ignore_file_exts)
              IN  \A e \in 1..Len(file_dict) :
                     file_dict[e].root # path[r] =>
                        (FoldersOf(BelowRoot(path[r], file_dict[e].root))
                           \cup {NameOf(file_dict[e].root)}) \cap ignore_folders = {}

\* C10 witness: a walk from /w with folder "b" and suffix ".l" excluded has
\* kept the three files outside b whose names do not end in ".l".
ExclusionBelowRootWitness ==
    \E r \in Runs :
        /\ path[r] = DirW
        /\ ignore_folders = { <<"b">> }
        /\ ignore_file_exts = { <<".", "l">> }
        /\ Len(file_paths[r]) = 3

QueryReadOnly ==
    [][(qry_resp = NoResponse /\ qry_resp' # NoResponse) =>
          (persisted' = persisted /\ collections' = collections)]_vars

\* C13: in a run started after a completed run on the same root with no
\* file modified since, every add_documents call is handed ids the collection
\* already holds, so the call overwrites: the ids of the root's collection,
\* and so their number, are the same after the call as before it.
ChunkIdStability ==
    [][\A r \in Runs :
          (rerun[r] /\ stale[r] = {} /\ pc[r] = "upsert" /\ pc'[r] = "record") =>
              /\ ChunkIds(CurrentFile(r), Len(split_texts[r]))
                    \subseteq DOMAIN collections[CollectionOf(r)]
              /\ DOMAIN collections'[CollectionOf(r)] = DOMAIN collections[CollectionOf(r)]
              /\ Cardinality(DOMAIN collections'[CollectionOf(r)])
                    = Cardinality(DOMAIN collections[CollectionOf(r)])]_vars

\* C13 witness: such a run has upserted a file again, and goes on to a later
\* candidate with the earlier one saved.
ChunkIdStabilityWitness ==
    \E r \in Runs :
        /\ rerun[r]
        /\ stale[r] = {}
        /\ pc[r] = "record"
        /\ saved[r] # {}
        /\ CurrentFile(r) \in upsert_log[r]
        /\ ChunkIds(CurrentFile(r), Len(split_texts[r]))
              \subseteq DOMAIN collections[CollectionOf(r)]

\* C14: every completed set_state of a run replaces the saved document of
\* the root's actor by the run's in-memory mapping, whatever another run on
\* the root has saved since this run's get_state.
WholeDocumentSave ==
    [][\A r \in Runs :
          (pc[r] = "set_state" /\ pc'[r] = "loop") =>
              /\ ActorOf(r) \in DOMAIN persisted'
              /\ persisted'[ActorOf(r)] = actor_state[r]]_vars

\* C14 witness: two runs on one root are in flight; the saved document is
\* the one the second run wrote, and it lacks the entry of a file the first
\* run had saved.
LostUpdateWitness ==
    \E r \in Runs, q \in Runs :
        /\ r # q
        /\ path[r] # None
        /\ path[q] = path[r]
        /\ saved[q] # {}
        /\ ActorOf(r) \in DOMAIN persisted
        /\ persisted[ActorOf(r)] = actor_state[q]
        /\ \E f \in saved[r] :
              translate_file_path_to_key(f) \notin DOMAIN persisted[ActorOf(r)]

\* The ids the root's collection holds for a file.
IdsOf(r, f) ==
    { id \in DOMAIN collections[CollectionOf(r)] :
        collections[CollectionOf(r)][id].source = f }

\* C15: once a run has upserted a file whose content yields n chunks, the
\* root's collection holds for that file exactly the ids of chunks 0 .. n-1,
\* and none left from an earlier, longer content.
NoStaleChunks ==
    \A r \in Runs : \A f \in upsert_log[r] :
        /\ CollectionOf(r) \in DOMAIN collections
        /\ IdsOf(r, f) = ChunkIds(f, Len(split_documents(fs[f])))

====
